---- MODULE Spec2Model ----
(***************************************************************************)
(* Model of the authentication layer of alerts-service:                    *)
(*   utils/token      (src/unnamed/part_002)  token codec and validators   *)
(*   interfaces       (src/src/interfaces/index.ts)  payload type guards   *)
(*   middlewares/auth (src/unnamed/part_000)  the five guards + accessors  *)
(*                                                                         *)
(* Strings are sequences of one-character strings, so that startsWith,     *)
(* slice and trim are computed character by character.  A signed token is  *)
(* a four character string <<shape, exp, nbf, sig>>: a compact stand-in    *)
(* for the three-part JWT wire format, which jwt.decode parses and         *)
(* jwt.verify parses and checks.  Every other string does not decode.      *)
(*                                                                         *)
(* One behaviour of the model is the life of one inbound request: Init is  *)
(* the request as Express hands it to the first middleware (carriers set,  *)
(* no auth context, nothing sent), and each step runs one guard of the     *)
(* chain or lets the wall clock advance by one second.  A guard reads the  *)
(* clock once: the handlers are synchronous and take far less than the     *)
(* one-second granularity of Math.floor(Date.now() / 1000).                *)
(***************************************************************************)
EXTENDS Integers, Sequences, FiniteSets, TLC

\* ------------------------------------------------------------------ bounds
MaxNow == 3
MaxGuards == 3

\* ----------------------------------------------------------- JS strings
\* an absent (undefined / null) string; no real string contains this element
NoString == <<"undefined">>

BearerPrefix == <<"B", "e", "a", "r", "e", "r", " ">>

\* String.prototype.startsWith
StartsWith(s, p) == Len(s) >= Len(p) /\ SubSeq(s, 1, Len(p)) = p

\* String.prototype.slice(n)
Slice(s, n) == IF n >= Len(s) THEN <<>> ELSE SubSeq(s, n + 1, Len(s))

RECURSIVE TrimStart(_)
TrimStart(s) == IF s # <<>> /\ Head(s) = " " THEN TrimStart(Tail(s)) ELSE s

RECURSIVE TrimEnd(_)
TrimEnd(s) ==
    IF s # <<>> /\ s[Len(s)] = " " THEN TrimEnd(SubSeq(s, 1, Len(s) - 1)) ELSE s

\* String.prototype.trim
Trim(s) == TrimEnd(TrimStart(s))

\* ------------------------------------------------- token wire format
\* shape character -> the payload fields the token carries
ShapeChars == {"U", "E", "I", "S", "F", "T", "A", "B", "N", "P"}
ExpChars == {"-", "0", "1", "2", "3", "m", "t", "q", "w"}
NbfChars == {"-", "2"}
\* expiry values that only tokens signed by this service carry:
\* "4".."9" the seconds 4..9, "a".."j" the seconds 86400..86409
IssuedExpChars == {"4", "5", "6", "7", "8", "9",
                   "a", "b", "c", "d", "e", "f", "g", "h", "i", "j"}
\* "k": signed with the secret of the environment variable JWT_SECRET,
\* "d": signed with the literal default secret of constants.ts,
\* "b": any other signature
SigChars == {"k", "d", "b"}

ExpValue(c) ==
    CASE c = "0" -> 0
      [] c = "1" -> 1
      [] c = "2" -> 2
      [] c = "3" -> 3
      [] c = "m" -> 62
      [] c = "t" -> 600
      [] c = "q" -> 902
      [] c = "w" -> 1800
      [] c = "4" -> 4
      [] c = "5" -> 5
      [] c = "6" -> 6
      [] c = "7" -> 7
      [] c = "8" -> 8
      [] c = "9" -> 9
      [] c = "a" -> 86400
      [] c = "b" -> 86401
      [] c = "c" -> 86402
      [] c = "d" -> 86403
      [] c = "e" -> 86404
      [] c = "f" -> 86405
      [] c = "g" -> 86406
      [] c = "h" -> 86407
      [] c = "i" -> 86408
      [] c = "j" -> 86409
      [] OTHER -> 0

\* the character that carries an expiry value
ExpChar(seconds) ==
    CHOOSE c \in (ExpChars \cup IssuedExpChars) \ {"-"} : ExpValue(c) = seconds

\* absent values of the request and of decode
Null == [kind |-> "null"]

\* the claims object a shape stands for; userIdType/systemType are the
\* typeof of the field, "undefined" when the field is not in the object
ShapeFields(c) ==
    CASE c = "U" -> [userIdType |-> "string", userId |-> "u1",
                     systemType |-> "undefined", system |-> FALSE, hasService |-> FALSE]
      [] c = "E" -> [userIdType |-> "string", userId |-> "",
                     systemType |-> "undefined", system |-> FALSE, hasService |-> FALSE]
      [] c = "I" -> [userIdType |-> "number", userId |-> "7",
                     systemType |-> "undefined", system |-> FALSE, hasService |-> FALSE]
      [] c = "S" -> [userIdType |-> "undefined", userId |-> "",
                     systemType |-> "boolean", system |-> TRUE, hasService |-> TRUE]
      [] c = "F" -> [userIdType |-> "undefined", userId |-> "",
                     systemType |-> "boolean", system |-> FALSE, hasService |-> TRUE]
      [] c = "T" -> [userIdType |-> "undefined", userId |-> "",
                     systemType |-> "boolean", system |-> TRUE, hasService |-> FALSE]
      [] c = "A" -> [userIdType |-> "string", userId |-> "u1",
                     systemType |-> "boolean", system |-> TRUE, hasService |-> TRUE]
      [] c = "B" -> [userIdType |-> "string", userId |-> "",
                     systemType |-> "boolean", system |-> TRUE, hasService |-> TRUE]
      [] OTHER   -> [userIdType |-> "undefined", userId |-> "",
                     systemType |-> "undefined", system |-> FALSE, hasService |-> FALSE]

WellFormed(token) ==
    /\ Len(token) = 4
    /\ token[1] \in ShapeChars
    /\ token[2] \in ExpChars \cup IssuedExpChars
    /\ token[3] \in NbfChars
    /\ token[4] \in SigChars

\* jwt.decode(token): the payload without any check, null when the string
\* is not a token.  Shape "P" is a token whose payload is not a JSON object
\* (decode then returns the payload as a plain string).
jwt_decode(token) ==
    IF ~WellFormed(token) THEN Null
    ELSE IF token[1] = "P" THEN [kind |-> "string"]
    ELSE [kind       |-> "object",
          raw        |-> token,
          userIdType |-> ShapeFields(token[1]).userIdType,
          userId     |-> ShapeFields(token[1]).userId,
          systemType |-> ShapeFields(token[1]).systemType,
          system     |-> ShapeFields(token[1]).system,
          hasService |-> ShapeFields(token[1]).hasService,
          hasExp     |-> token[2] # "-",
          exp        |-> ExpValue(token[2]),
          hasNbf     |-> token[3] # "-",
          nbf        |-> IF token[3] = "2" THEN 2 ELSE 0]

\* JS property read `decoded?.exp`: undefined (here 0, falsy) unless present
ExpOf(decoded) == IF decoded.kind = "object" /\ decoded.hasExp THEN decoded.exp ELSE 0

\* --------------------------------------------------------- type guards
isUserToken(token) == token.userIdType # "undefined" /\ token.userIdType = "string"

\* variant: the 'service' in token conjunct left out
isSystemToken_NoServiceCheck(token) ==
    token.systemType # "undefined" /\ token.system = TRUE

isSystemToken(token) ==
    token.systemType # "undefined" /\ token.system = TRUE /\ token.hasService

\* ------------------------------------------------------- configuration
DefaultSecret == "d"

\* variant: no literal default behind the environment variable
ENV_JWT_SECRET_NoDefault(env) == env

\* ENV.JWT.SECRET: process.env.JWT_SECRET || 'your-super-secret-jwt-key-here'
ENV_JWT_SECRET(env) == IF env = "" THEN DefaultSecret ELSE env

\* --------------------------------------------------------------- errors
\* HttpError.unauthorized(detail) and HttpError.internalServerError(detail)
Unauthorized(detail) == [ok |-> FALSE, value |-> Null, status |-> 401, detail |-> detail]
InternalServerError(detail) == [ok |-> FALSE, value |-> Null, status |-> 500, detail |-> detail]
Return(v) == [ok |-> TRUE, value |-> v, status |-> 0, detail |-> ""]

\* --------------------------------------------------------------- signing
\* ENV.JWT.EXPIRES_IN: process.env.JWT_EXPIRES_IN || '24h'
ENV_JWT_EXPIRES_IN(env) == IF env = "" THEN "24h" ELSE env

\* the seconds of a time span string, as jsonwebtoken reads it
Timespan(span) ==
    CASE span = "2s"  -> 2
      [] span = "1h"  -> 3600
      [] span = "24h" -> 86400

NoOptions == [expiresIn |-> ""]

\* jwt.sign(payload, secret, options): iat is the clock, exp = iat + span
jwt_sign(payload, secret, options, clock) ==
    <<payload, ExpChar(clock + Timespan(options.expiresIn)), "-", secret>>

\* variant: signs with a key other than ENV.JWT.SECRET
generateJWT_OtherKey(payload, options, env, expiresInEnv, clock) ==
    IF ENV_JWT_SECRET(env) = "" THEN InternalServerError("JWT secret not configured")
    ELSE LET finalOptions ==
                 IF options.expiresIn # "" THEN options
                 ELSE [expiresIn |-> ENV_JWT_EXPIRES_IN(expiresInEnv)]
         IN  Return(jwt_sign(payload, "b", finalOptions, clock))

\* { expiresIn: ENV.JWT.EXPIRES_IN || '1h', algorithm, ...options }
generateJWT(payload, options, env, expiresInEnv, clock) ==
    IF ENV_JWT_SECRET(env) = "" THEN InternalServerError("JWT secret not configured")
    ELSE LET finalOptions ==
                 IF options.expiresIn # "" THEN options
                 ELSE [expiresIn |-> ENV_JWT_EXPIRES_IN(expiresInEnv)]
         IN  Return(jwt_sign(payload, ENV_JWT_SECRET(env), finalOptions, clock))

generateUserToken(payload, env, expiresInEnv, clock) ==
    generateJWT(payload, [expiresIn |-> ENV_JWT_EXPIRES_IN(expiresInEnv)],
                env, expiresInEnv, clock)

\* the payload is { system: true, service: serviceName }
generateSystemToken(env, expiresInEnv, clock) ==
    generateJWT("S", [expiresIn |-> "24h"], env, expiresInEnv, clock)

\* ------------------------------------------------------------ jwt.verify
\* jsonwebtoken 9: structure, then signature, then nbf, then exp.
\* The result names the error class thrown, "none" on success.
jwt_verify(token, secret, clock) ==
    IF ~WellFormed(token) THEN [name |-> "JsonWebTokenError", value |-> Null]
    ELSE IF token[4] # secret THEN [name |-> "JsonWebTokenError", value |-> Null]
    ELSE LET payload == jwt_decode(token) IN
         IF payload.kind = "string" THEN [name |-> "none", value |-> payload]
         ELSE IF payload.hasNbf /\ payload.nbf > clock
              THEN [name |-> "NotBeforeError", value |-> Null]
         ELSE IF payload.hasExp /\ clock >= payload.exp
              THEN [name |-> "TokenExpiredError", value |-> Null]
         ELSE [name |-> "none", value |-> payload]

\* ---------------------------------------------------------- validators
\* variant: the NotBeforeError branch of the catch left out
validateToken_NoNbfBranch(token, env, clock) ==
    IF ENV_JWT_SECRET(env) = "" THEN InternalServerError("JWT secret not configured")
    ELSE IF Trim(token) = <<>> THEN Unauthorized("Token is required")
    ELSE LET v == jwt_verify(token, ENV_JWT_SECRET(env), clock) IN
         CASE v.name = "TokenExpiredError" -> Unauthorized("Token has expired")
           [] v.name = "JsonWebTokenError" -> Unauthorized("Malformed token")
           [] v.name = "NotBeforeError"    -> Unauthorized("Invalid token")
           [] v.name = "none" /\ v.value.kind # "object" -> Unauthorized("Invalid token")
           [] v.name = "none" /\ v.value.kind = "object"
                /\ ~isUserToken(v.value) /\ ~isSystemToken(v.value)
                                           -> Unauthorized("Invalid token")
           [] OTHER                        -> Return(v.value)

validateToken(token, env, clock) ==
    IF ENV_JWT_SECRET(env) = "" THEN InternalServerError("JWT secret not configured")
    ELSE IF Trim(token) = <<>> THEN Unauthorized("Token is required")
    ELSE LET v == jwt_verify(token, ENV_JWT_SECRET(env), clock) IN
         CASE v.name = "TokenExpiredError" -> Unauthorized("Token has expired")
           [] v.name = "JsonWebTokenError" -> Unauthorized("Malformed token")
           [] v.name = "NotBeforeError"    -> Unauthorized("Token not active yet")
           \* `'userId' in decoded` on a string payload throws a TypeError
           [] v.name = "none" /\ v.value.kind # "object" -> Unauthorized("Invalid token")
           \* the HttpError 'Invalid token structure' is thrown inside the try
           \* block and is re-thrown by its catch as the generic error
           [] v.name = "none" /\ v.value.kind = "object"
                /\ ~isUserToken(v.value) /\ ~isSystemToken(v.value)
                                           -> Unauthorized("Invalid token")
           [] OTHER                        -> Return(v.value)

\* variant: the check for an empty userId left out
validateUserToken_NoUserIdCheck(token, env, clock) ==
    LET r == validateToken(token, env, clock) IN
    IF ~r.ok THEN r
    ELSE IF ~isUserToken(r.value)
         THEN Unauthorized("Invalid token type - user token required")
    ELSE r

validateUserToken(token, env, clock) ==
    LET r == validateToken(token, env, clock) IN
    IF ~r.ok THEN r
    ELSE IF ~isUserToken(r.value)
         THEN Unauthorized("Invalid token type - user token required")
    ELSE IF r.value.userId = ""
         THEN Unauthorized("Token missing required userId field")
    ELSE r

\* variant: the isSystemToken check left out
validateSystemToken_NoKindCheck(token, env, clock) == validateToken(token, env, clock)

validateSystemToken(token, env, clock) ==
    LET r == validateToken(token, env, clock) IN
    IF ~r.ok THEN r
    ELSE IF ~isSystemToken(r.value)
         THEN Unauthorized("Invalid token type - system token required")
    ELSE r

\* variant: the remainder after the prefix is not trimmed
extractToken_NoTrim(authHeader) ==
    IF authHeader = NoString \/ ~StartsWith(authHeader, BearerPrefix) THEN NoString
    ELSE LET token == Slice(authHeader, 7) IN
         IF token = <<>> THEN NoString ELSE token

\* Authorization header -> bearer token or null
extractToken(authHeader) ==
    IF authHeader = NoString \/ ~StartsWith(authHeader, BearerPrefix) THEN NoString
    ELSE LET token == Trim(Slice(authHeader, 7)) IN
         IF token = <<>> THEN NoString ELSE token

\* variant: the comparison with the clock turned around
isTokenExpired_Inverted(token, clock) ==
    LET decoded == jwt_decode(token) IN
    IF ExpOf(decoded) = 0 THEN TRUE
    ELSE decoded.exp > clock

isTokenExpired(token, clock) ==
    LET decoded == jwt_decode(token) IN
    IF ExpOf(decoded) = 0 THEN TRUE
    ELSE decoded.exp < clock

decodeJWT(token) == jwt_decode(token)

\* ------------------------------------------------------------ the state
VARIABLES
    jwtSecretEnv,   \* process.env.JWT_SECRET, "" when unset; read once at load
    req,            \* the carriers of the inbound request
    ctx,            \* req.authUser, req.authSystem, req.authToken, req.tokenType
    res,            \* the response: sent, statusCode, error detail
    resHeaders,     \* the response headers set by checkTokenExpiry
    nextCalls,      \* how many times next() was called for this request
    steps,          \* how many guards of the chain have run
    now,            \* Math.floor(Date.now() / 1000)
    last,           \* the guard that ran last, its argument and clock reading
    codec,          \* token issuance: JWT_EXPIRES_IN, the token signed, its check
    read,           \* the value the accessor called last returned to the handler
    route           \* the alerts route the request is for and how far it got

vars == <<jwtSecretEnv, req, ctx, res, resHeaders, nextCalls, steps, now, last,
          codec, read, route>>

\* the state outside the guards: no guard assigns any of it
outside == <<codec, read, route>>

\* a truthy query value that is not a string (?token[]=x)
NonString == <<"object">>

Bearer(token) == BearerPrefix \o token

AllTokens ==
    {<<s, e, n, g>> : s \in ShapeChars, e \in ExpChars, n \in NbfChars, g \in SigChars}

\* the tokens a request of the model may carry in its Authorization header
HeaderTokens ==
    {t \in AllTokens :
        /\ t[3] = "-" \/ (t[1] \in {"U", "S", "N"} /\ t[2] \in {"w", "2", "-"})
        /\ t[4] # "b" \/ t[2] \in {"w", "2"}}

OddHeaders ==
    { NoString, <<>>, BearerPrefix, BearerPrefix \o <<" ", " ">>,
      <<"T", "o", "k", "e", "n", " ">> \o <<"U", "w", "-", "k">>,
      <<"b", "e", "a", "r", "e", "r", " ">> \o <<"U", "w", "-", "k">>,
      <<"B", "e", "a", "r", "e", "r">> \o <<"U", "w", "-", "k">>,
      BearerPrefix \o <<" ">> \o <<"U", "w", "-", "k">> \o <<" ">>,
      BearerPrefix \o <<"U", "w">>,
      BearerPrefix \o <<"U", "w", " ", "-", "k">> }


QueryTokens ==
    { NoString, <<>>, NonString, <<"U", "w", "-", "k">>, <<"S", "w", "-", "k">>,
      <<"U", "w", "-", "d">>, <<" ">> }

CookieTokens == { NoString, <<"U", "w", "-", "k">>, <<"S", "w", "-", "d">> }

\* the requests of the model: every header that carries no usable bearer
\* token with every query and cookie value, and every bearer token alone
\* and together with lower-priority carriers that hold valid tokens
Requests ==
    [authorization : OddHeaders, queryToken : QueryTokens, cookieToken : CookieTokens]
    \cup
    {[authorization |-> Bearer(t), queryToken |-> c[1], cookieToken |-> c[2]] :
        t \in HeaderTokens,
        c \in {<<NoString, NoString>>, <<<<"U", "w", "-", "k">>, <<"S", "w", "-", "d">>>>}}

Thresholds == {1, 15}

NoContext ==
    [authUser |-> Null, authSystem |-> Null, authToken |-> NoString, tokenType |-> "undefined"]

NoHeaders == [names |-> {}, expiresIn |-> 0, tokenType |-> ""]

\* nothing signed, nothing read, no route entered
NoCheck == [done |-> FALSE, at |-> 0, ok |-> FALSE, detail |-> "",
            isUser |-> FALSE, isSystem |-> FALSE]
NoCodec == [expiresInEnv |-> "", issued |-> NoString, iat |-> 0, checked |-> NoCheck]
NoRead == [fn |-> "none", object |-> Null, text |-> NoString, tag |-> "null",
           flag |-> FALSE, at |-> 0, repeat |-> FALSE]
NoRoute == [endpoint |-> "none", stage |-> "none"]

\* the request-scoped state as Express creates it
FreshRequest ==
    /\ ctx = NoContext
    /\ res = [sent |-> FALSE, status |-> 200, detail |-> ""]
    /\ resHeaders = NoHeaders
    /\ nextCalls = 0
    /\ steps = 0
    /\ last = [op |-> "none", arg |-> 0, clock |-> 0]
    /\ read = NoRead

Init ==
    /\ jwtSecretEnv \in {"", "k"}
    /\ req \in Requests
    /\ ctx = NoContext
    /\ res = [sent |-> FALSE, status |-> 200, detail |-> ""]
    /\ resHeaders = NoHeaders
    /\ nextCalls = 0
    /\ steps = 0
    /\ now \in 0..MaxNow
    /\ last = [op |-> "none", arg |-> 0, clock |-> 0]
    /\ codec = NoCodec
    /\ read = NoRead
    /\ route = NoRoute

\* JS truthiness of a string-or-absent value
Truthy(s) == s # NoString /\ s # <<>>

\* variant: the cookie is tried before the query parameter
extractTokenFromRequest_CookieFirst(r) ==
    LET headerToken == IF Truthy(r.authorization) THEN extractToken(r.authorization)
                       ELSE NoString
    IN  IF Truthy(headerToken) THEN headerToken
        ELSE IF Truthy(r.cookieToken) /\ r.cookieToken # NonString THEN r.cookieToken
        ELSE IF Truthy(r.queryToken) /\ r.queryToken # NonString THEN r.queryToken
        ELSE NoString

extractTokenFromRequest(r) ==
    LET headerToken == IF Truthy(r.authorization) THEN extractToken(r.authorization)
                       ELSE NoString
    IN  IF Truthy(headerToken) THEN headerToken
        ELSE IF Truthy(r.queryToken) /\ r.queryToken # NonString THEN r.queryToken
        ELSE IF Truthy(r.cookieToken) /\ r.cookieToken # NonString THEN r.cookieToken
        ELSE NoString

\* error.sendError(res): res.status(code).json({title, detail, code})
sendError(err) == res' = [sent |-> TRUE, status |-> err.status, detail |-> err.detail]

\* the Express chain runs the following middleware only after next()
ChainRuns == ~res.sent /\ steps < MaxGuards

Ran(op, arg) ==
    /\ steps' = steps + 1
    /\ last' = [op |-> op, arg |-> arg, clock |-> now]

\* variant: when the extracted token fails, the query parameter is tried
UserAuthOutcome_FallsBack(r, env, clock) ==
    LET token == extractTokenFromRequest(r) IN
    IF ~Truthy(token) THEN Unauthorized("User authentication token required")
    ELSE IF validateUserToken(token, env, clock).ok \/ ~Truthy(r.queryToken)
         THEN validateUserToken(token, env, clock)
    ELSE validateUserToken(r.queryToken, env, clock)

\* what the try block of requireUserAuth computes: the error thrown, or
\* the decoded token to attach
UserAuthOutcome(r, env, clock) ==
    LET token == extractTokenFromRequest(r) IN
    IF ~Truthy(token) THEN Unauthorized("User authentication token required")
    ELSE validateUserToken(token, env, clock)

\* next() is the last statement of the guard's try block: when the call
\* returns nothing more happens, when it throws the guard's catch sends a
\* 401 with the guard's fallback detail (the error is not an HttpError)
NextCalled(nextThrows, fallback) ==
    /\ nextCalls' = nextCalls + 1
    /\ IF nextThrows THEN sendError(Unauthorized(fallback)) ELSE UNCHANGED res

\* the guard called with a next callback that returns or throws
requireUserAuthCalled(nextThrows) ==
    /\ ChainRuns
    /\ \E out \in {UserAuthOutcome(req, jwtSecretEnv, now)} :
       IF out.ok
       THEN /\ ctx' = [ctx EXCEPT !.authUser = out.value,
                                  !.authToken = extractTokenFromRequest(req),
                                  !.tokenType = "user"]
            /\ NextCalled(nextThrows, "Invalid user token")
       ELSE /\ sendError(out)
            /\ UNCHANGED <<ctx, nextCalls>>
    /\ Ran("requireUserAuth", 0)
    /\ UNCHANGED <<jwtSecretEnv, req, resHeaders, now, outside>>

\* the guard in an Express chain: the router catches what a handler
\* throws and hands it to error handling, so next() returns
requireUserAuth == requireUserAuthCalled(FALSE)

SystemAuthOutcome(r, env, clock) ==
    LET token == extractTokenFromRequest(r) IN
    IF ~Truthy(token) THEN Unauthorized("System authentication token required")
    ELSE validateSystemToken(token, env, clock)

requireSystemAuthCalled(nextThrows) ==
    /\ ChainRuns
    /\ \E out \in {SystemAuthOutcome(req, jwtSecretEnv, now)} :
       IF out.ok
       THEN /\ ctx' = [ctx EXCEPT !.authSystem = out.value,
                                  !.authToken = extractTokenFromRequest(req),
                                  !.tokenType = "system"]
            /\ NextCalled(nextThrows, "Invalid system token")
       ELSE /\ sendError(out)
            /\ UNCHANGED <<ctx, nextCalls>>
    /\ Ran("requireSystemAuth", 0)
    /\ UNCHANGED <<jwtSecretEnv, req, resHeaders, now, outside>>

requireSystemAuth == requireSystemAuthCalled(FALSE)

optionalUserAuth ==
    /\ ChainRuns
    /\ \E token \in {extractTokenFromRequest(req)} :
       \E decoded \in {validateUserToken(token, jwtSecretEnv, now)} :
         IF Truthy(token) /\ ~isTokenExpired(token, now) /\ decoded.ok
         THEN ctx' = [ctx EXCEPT !.authUser = decoded.value,
                                 !.authToken = token,
                                 !.tokenType = "user"]
         ELSE UNCHANGED ctx
    /\ nextCalls' = nextCalls + 1
    /\ Ran("optionalUserAuth", 0)
    /\ UNCHANGED <<jwtSecretEnv, req, res, resHeaders, now, outside>>

\* variant: a request without a token is let through
AuthOutcome_AnonymousAllowed(r, env, clock) ==
    LET token == extractTokenFromRequest(r) IN
    IF ~Truthy(token) THEN Return([decoded |-> Null, type |-> "user"])
    ELSE IF isTokenExpired(token, clock) THEN Unauthorized("Token has expired")
    ELSE LET d == validateToken(token, env, clock) IN
         IF ~d.ok THEN d
         ELSE IF isUserToken(d.value) THEN Return([decoded |-> d.value, type |-> "user"])
         ELSE IF isSystemToken(d.value) THEN Return([decoded |-> d.value, type |-> "system"])
         ELSE Unauthorized("Invalid token type")

\* variant: the System predicate evaluated before the User predicate
AuthOutcome_SystemFirst(r, env, clock) ==
    LET token == extractTokenFromRequest(r) IN
    IF ~Truthy(token) THEN Unauthorized("Authentication token required")
    ELSE IF isTokenExpired(token, clock) THEN Unauthorized("Token has expired")
    ELSE LET d == validateToken(token, env, clock) IN
         IF ~d.ok THEN d
         ELSE IF isSystemToken(d.value) THEN Return([decoded |-> d.value, type |-> "system"])
         ELSE IF isUserToken(d.value) THEN Return([decoded |-> d.value, type |-> "user"])
         ELSE Unauthorized("Invalid token type")

\* what the try block of requireAuth computes: the error thrown, or the
\* decoded token together with the branch that attached it
AuthOutcome(r, env, clock) ==
    LET token == extractTokenFromRequest(r) IN
    IF ~Truthy(token) THEN Unauthorized("Authentication token required")
    ELSE IF isTokenExpired(token, clock) THEN Unauthorized("Token has expired")
    ELSE LET d == validateToken(token, env, clock) IN
         IF ~d.ok THEN d
         ELSE IF isUserToken(d.value) THEN Return([decoded |-> d.value, type |-> "user"])
         ELSE IF isSystemToken(d.value) THEN Return([decoded |-> d.value, type |-> "system"])
         ELSE Unauthorized("Invalid token type")

requireAuthCalled(nextThrows) ==
    /\ ChainRuns
    /\ \E out \in {AuthOutcome(req, jwtSecretEnv, now)} :
       IF out.ok
       THEN /\ ctx' = IF out.value.type = "user"
                      THEN [ctx EXCEPT !.authUser = out.value.decoded,
                                       !.tokenType = "user",
                                       !.authToken = extractTokenFromRequest(req)]
                      ELSE [ctx EXCEPT !.authSystem = out.value.decoded,
                                       !.tokenType = "system",
                                       !.authToken = extractTokenFromRequest(req)]
            /\ NextCalled(nextThrows, "Authentication failed")
       ELSE /\ sendError(out)
            /\ UNCHANGED <<ctx, nextCalls>>
    /\ Ran("requireAuth", 0)
    /\ UNCHANGED <<jwtSecretEnv, req, resHeaders, now, outside>>

requireAuth == requireAuthCalled(FALSE)

\* variant: the threshold compared in minutes, not converted to seconds
ExpiryWarning_Minutes(c, thresholdMinutes, clock) ==
    /\ (c.authUser # Null \/ c.authSystem # Null) /\ Truthy(c.authToken)
    /\ LET decoded == decodeJWT(c.authToken) IN
        /\ decoded # Null
        /\ ExpOf(decoded) # 0
        /\ ExpOf(decoded) - clock <= thresholdMinutes

\* the condition under which checkTokenExpiry sets its headers
ExpiryWarning(c, thresholdMinutes, clock) ==
    /\ (c.authUser # Null \/ c.authSystem # Null) /\ Truthy(c.authToken)
    /\ LET decoded == decodeJWT(c.authToken) IN
        /\ decoded # Null
        /\ ExpOf(decoded) # 0
        /\ ExpOf(decoded) - clock <= thresholdMinutes * 60

\* variant: the middleware returns after setting the headers
checkTokenExpiry_ReturnsOnWarning(thresholdMinutes) ==
    /\ ChainRuns
    /\ IF ExpiryWarning(ctx, thresholdMinutes, now)
       THEN /\ resHeaders' =
                [names |-> resHeaders.names \cup
                           {"X-Token-Expiry-Warning", "X-Token-Expires-In", "X-Token-Type"},
                 expiresIn |-> ExpOf(decodeJWT(ctx.authToken)) - now,
                 tokenType |-> IF ctx.tokenType = "undefined" THEN "unknown"
                               ELSE ctx.tokenType]
            /\ UNCHANGED nextCalls
       ELSE /\ UNCHANGED resHeaders
            /\ nextCalls' = nextCalls + 1
    /\ Ran("checkTokenExpiry", thresholdMinutes)
    /\ UNCHANGED <<jwtSecretEnv, req, ctx, res, now, outside>>

checkTokenExpiry(thresholdMinutes) ==
    /\ ChainRuns
    /\ IF ExpiryWarning(ctx, thresholdMinutes, now)
       THEN resHeaders' =
              [names |-> resHeaders.names \cup
                         {"X-Token-Expiry-Warning", "X-Token-Expires-In", "X-Token-Type"},
               expiresIn |-> ExpOf(decodeJWT(ctx.authToken)) - now,
               tokenType |-> IF ctx.tokenType = "undefined" THEN "unknown"
                             ELSE ctx.tokenType]
       ELSE UNCHANGED resHeaders
    /\ nextCalls' = nextCalls + 1
    /\ Ran("checkTokenExpiry", thresholdMinutes)
    /\ UNCHANGED <<jwtSecretEnv, req, ctx, res, now, outside>>

\* a second passes while the request is in flight
Tick ==
    /\ ~res.sent
    /\ now < MaxNow
    /\ now' = now + 1
    /\ UNCHANGED <<jwtSecretEnv, req, ctx, res, resHeaders, nextCalls, steps, last, outside>>

Next ==
    \/ requireUserAuth
    \/ requireSystemAuth
    \/ optionalUserAuth
    \/ requireAuth
    \/ \E thresholdMinutes \in Thresholds : checkTokenExpiry(thresholdMinutes)
    \/ Tick

\* ---------------------------------------------------------- token codec
\* the payloads handed to the signer: User payloads with a userId and with
\* an empty one, the System payload, a payload with the fields of both,
\* a payload with neither
SignedPayloads == {"U", "E", "S", "A", "N"}
UserPayloads == {"U", "E"}
ExpiresInEnvs == {"", "2s"}

NoRequest == [authorization |-> NoString, queryToken |-> NoString, cookieToken |-> NoString]

InitCodec ==
    /\ jwtSecretEnv \in {"", "k"}
    /\ req = NoRequest
    /\ FreshRequest
    /\ now \in 0..MaxNow
    /\ codec \in {[NoCodec EXCEPT !.expiresInEnv = e] : e \in ExpiresInEnvs}
    /\ route = NoRoute

Issue(r) ==
    /\ r.ok
    /\ codec' = [codec EXCEPT !.issued = r.value, !.iat = now, !.checked = NoCheck]
    /\ UNCHANGED <<jwtSecretEnv, req, ctx, res, resHeaders, nextCalls, steps, now, last,
                   read, route>>

GenerateJWT ==
    \E payload \in SignedPayloads :
        Issue(generateJWT(payload, NoOptions, jwtSecretEnv, codec.expiresInEnv, now))

GenerateUserToken ==
    \E payload \in UserPayloads :
        Issue(generateUserToken(payload, jwtSecretEnv, codec.expiresInEnv, now))

GenerateSystemToken ==
    Issue(generateSystemToken(jwtSecretEnv, codec.expiresInEnv, now))

\* validateToken on the token signed last, and the type guards on its result
ValidateIssued ==
    /\ codec.issued # NoString
    /\ \E r \in {validateToken(codec.issued, jwtSecretEnv, now)} :
          codec' = [codec EXCEPT !.checked =
                       [done |-> TRUE, at |-> now, ok |-> r.ok, detail |-> r.detail,
                        isUser |-> r.ok /\ isUserToken(r.value),
                        isSystem |-> r.ok /\ isSystemToken(r.value)]]
    /\ UNCHANGED <<jwtSecretEnv, req, ctx, res, resHeaders, nextCalls, steps, now, last,
                   read, route>>

NextCodec ==
    \/ GenerateJWT
    \/ GenerateUserToken
    \/ GenerateSystemToken
    \/ ValidateIssued
    \/ Tick

SpecCodec == InitCodec /\ [][NextCodec]_vars

\* ------------------------------------------------------------ accessors
\* req.authUser || null
getUser(c) == IF c.authUser.kind = "object" THEN c.authUser ELSE Null

\* req.authSystem || null
getSystem(c) == IF c.authSystem.kind = "object" THEN c.authSystem ELSE Null

\* req.authToken || null
getToken(c) == IF Truthy(c.authToken) THEN c.authToken ELSE NoString

\* req.tokenType || null
getTokenType(c) == IF c.tokenType \in {"undefined", ""} THEN "null" ELSE c.tokenType

hasUserToken(c) == c.tokenType = "user"

hasSystemToken(c) == c.tokenType = "system"

\* a controller calls an accessor; the value returned is kept in read,
\* with the position in the chain and whether the call before it was to
\* the same accessor
Returned(r) ==
    /\ read' = [r EXCEPT !.at = steps, !.repeat = (read.fn = r.fn)]
    /\ UNCHANGED <<jwtSecretEnv, req, ctx, res, resHeaders, nextCalls, steps, now, last,
                   codec, route>>

\* variant: the accessor takes the user off the request
GetUser_Consuming ==
    /\ read' = [NoRead EXCEPT !.fn = "getUser", !.object = getUser(ctx), !.at = steps,
                               !.repeat = (read.fn = "getUser")]
    /\ ctx' = [ctx EXCEPT !.authUser = Null]
    /\ UNCHANGED <<jwtSecretEnv, req, res, resHeaders, nextCalls, steps, now, last,
                   codec, route>>

GetUser == Returned([NoRead EXCEPT !.fn = "getUser", !.object = getUser(ctx)])

GetSystem == Returned([NoRead EXCEPT !.fn = "getSystem", !.object = getSystem(ctx)])

GetToken == Returned([NoRead EXCEPT !.fn = "getToken", !.text = getToken(ctx)])

GetTokenType == Returned([NoRead EXCEPT !.fn = "getTokenType", !.tag = getTokenType(ctx)])

HasUserToken == Returned([NoRead EXCEPT !.fn = "hasUserToken", !.flag = hasUserToken(ctx)])

HasSystemToken ==
    Returned([NoRead EXCEPT !.fn = "hasSystemToken", !.flag = hasSystemToken(ctx)])

\* the requests the accessors are exercised on
AccessorTokens ==
    { <<"U", "w", "-", "k">>, <<"S", "w", "-", "k">>, <<"A", "w", "-", "k">>,
      <<"E", "w", "-", "k">>, <<"N", "w", "-", "k">>, <<"U", "2", "-", "k">>,
      <<"U", "w", "-", "b">>, <<"S", "-", "-", "d">> }

InitAccessors ==
    /\ Init
    /\ req \in {NoRequest} \cup
                {[NoRequest EXCEPT !.authorization = Bearer(t)] : t \in AccessorTokens}

NextAccessors ==
    \/ Next
    \/ GetUser
    \/ GetSystem
    \/ GetToken
    \/ GetTokenType
    \/ HasUserToken
    \/ HasSystemToken

SpecAccessors == InitAccessors /\ [][NextAccessors]_vars

\* --------------------------------------------------------- alerts routes
\* router.post('/'), router.get('/'), router.get('/:id'), router.put('/:id'),
\* router.delete('/:id'), router.patch('/bulk-update')
Endpoints == {"create", "list", "get", "update", "delete", "bulk-update"}

\* router.use('/alerts', alertsRouter) and the route match: the request
\* enters the chain the route registered, validateJoi first
Dispatch ==
    /\ route.stage = "none"
    /\ \E endpoint \in Endpoints : route' = [endpoint |-> endpoint, stage |-> "validateJoi"]
    /\ UNCHANGED <<jwtSecretEnv, req, ctx, res, resHeaders, nextCalls, steps, now, last,
                   codec, read>>

\* validateJoi({...}): the first middleware of every route; it hands a
\* request that fits the schema to the handler and fails any other
ValidateJoi ==
    /\ route.stage = "validateJoi"
    /\ \E fits \in BOOLEAN :
          route' = [route EXCEPT !.stage = IF fits THEN "handler" ELSE "invalid"]
    /\ UNCHANGED <<jwtSecretEnv, req, ctx, res, resHeaders, nextCalls, steps, now, last,
                   codec, read>>

\* how the try block of a handler ends: "ok" when the response is built,
\* "notFound" when the handler throws HttpError.notFound, otherwise the
\* name of the error raised by the Alert model call or by the handler's
\* own statements ("TypeError": bulk-update reading filter.ids or
\* update.lastEvaluated of a body without filter or update, which the
\* schema allows)
TryOutcomes(endpoint) ==
    CASE endpoint = "create" -> {"ok", "ValidationError", "Error"}
      [] endpoint = "list"   -> {"ok", "Error"}
      [] endpoint = "get"    -> {"ok", "notFound", "CastError", "Error"}
      [] endpoint = "update" -> {"ok", "notFound", "ValidationError", "CastError", "Error"}
      [] endpoint = "delete" -> {"ok", "notFound", "CastError", "Error"}
      [] endpoint = "bulk-update" ->
            {"ok", "notFound", "ValidationError", "CastError", "TypeError", "Error"}

\* the error names for which the catch block throws a new HttpError
\* instead of calling next(error)
Rethrown(endpoint) ==
    CASE endpoint = "create" -> {"ValidationError"}
      [] endpoint = "list"   -> {}
      [] endpoint = "get"    -> {"CastError"}
      [] endpoint = "update" -> {"ValidationError", "CastError"}
      [] endpoint = "delete" -> {"CastError"}
      [] endpoint = "bulk-update" -> {"ValidationError", "CastError"}

\* the async handler: the Alert model call, then the response, or the
\* error handed to next, or a throw out of the catch block.  The handler
\* is an async function, so that throw rejects the promise it returned;
\* the Express 4 router does not look at the promise: nothing is sent and
\* next is not called
Handler ==
    /\ route.stage = "handler"
    /\ \E outcome \in TryOutcomes(route.endpoint) :
          CASE outcome = "ok" ->
                 /\ route' = [route EXCEPT !.stage = "responded"]
                 /\ res' = [sent |-> TRUE, detail |-> "",
                            status |-> IF route.endpoint = "create" THEN 201 ELSE 200]
            [] outcome \in Rethrown(route.endpoint) ->
                 /\ route' = [route EXCEPT !.stage = "rejected"]
                 /\ res' = res
            [] OTHER ->
                 /\ route' = [route EXCEPT !.stage = "error"]
                 /\ res' = res
    /\ UNCHANGED <<jwtSecretEnv, req, ctx, resHeaders, nextCalls, steps, now, last,
                   codec, read>>

InitRoute == InitAccessors

NextRoute ==
    \/ Dispatch
    \/ ValidateJoi
    \/ Handler
    \/ Tick

SpecRoute == InitRoute /\ [][NextRoute]_vars

\* the event loop runs every middleware and handler that is ready
SpecRouteLive ==
    /\ SpecRoute
    /\ WF_vars(Dispatch) /\ WF_vars(ValidateJoi) /\ WF_vars(Handler)

\* ------------------------------------------------- guards called directly
\* a required guard called as a function (req, res, next) with a next
\* callback that may throw into its caller
DirectUserAuth == \E nextThrows \in BOOLEAN : requireUserAuthCalled(nextThrows)

DirectSystemAuth == \E nextThrows \in BOOLEAN : requireSystemAuthCalled(nextThrows)

DirectAuth == \E nextThrows \in BOOLEAN : requireAuthCalled(nextThrows)

InitDirect == InitAccessors

NextDirect ==
    \/ DirectUserAuth
    \/ DirectSystemAuth
    \/ DirectAuth
    \/ Tick

SpecDirect == InitDirect /\ [][NextDirect]_vars

\* requests that exercise extraction: every header without a usable bearer
\* token, and a few bearer tokens, with the query and cookie values
ExtractHeaders ==
    OddHeaders \cup {Bearer(t) : t \in {<<"U", "w", "-", "k">>, <<"S", "w", "-", "k">>,
                                        <<"U", "2", "-", "b">>, <<"S", "w", "-", "d">>}}

InitExtract == Init /\ req.authorization \in ExtractHeaders

SpecExtract == InitExtract /\ [][Next]_vars

Spec == Init /\ [][Next]_vars

TypeOK ==
    /\ steps \in 0..MaxGuards
    /\ nextCalls \in 0..MaxGuards
    /\ now \in 0..MaxNow
    /\ res.sent \in BOOLEAN

\* ---------------------------------------------------- claim vocabulary
\* the token the guards of this request work on
Extracted == extractTokenFromRequest(req)

\* correctly signed: a token whose signature was made with ENV.JWT.SECRET
CorrectlySigned(token) == WellFormed(token) /\ token[4] = ENV_JWT_SECRET(jwtSecretEnv)

\* the payload carried by a token that has one
Payload(token) == jwt_decode(token)

HasObjectPayload(token) == WellFormed(token) /\ token[1] # "P"

\* unexpired and active at clock: an exp claim strictly in the future and
\* no nbf claim in the future
Unexpired(token, clock) ==
    /\ HasObjectPayload(token)
    /\ Payload(token).hasExp /\ Payload(token).exp > clock
    /\ ~Payload(token).hasNbf \/ Payload(token).nbf <= clock

ValidAt(token, clock) == Truthy(token) /\ CorrectlySigned(token) /\ Unexpired(token, clock)

\* the four payload shapes: User, System, both, neither
HasStringUserId(token) == token[1] \in {"U", "E", "A", "B"}
HasSystemAndService(token) == token[1] \in {"S", "A", "B"}
UserShape(token) == HasStringUserId(token) /\ ~HasSystemAndService(token)
SystemShape(token) == HasSystemAndService(token) /\ ~HasStringUserId(token)
BothShape(token) == HasStringUserId(token) /\ HasSystemAndService(token)
NeitherShape(token) == ~HasStringUserId(token) /\ ~HasSystemAndService(token)

Rejected401 == res'.sent /\ res'.status = 401 /\ nextCalls' = nextCalls
Continued == ~res'.sent /\ nextCalls' = nextCalls + 1

\* ------------------------------------------------------------------ C1
\* C1: requireUserAuth on a correctly signed, unexpired System token, and
\* requireSystemAuth on a correctly signed, unexpired User token, send a
\* 401, do not call next and leave the auth context as it was.
C1_WrongKindRejected ==
    [][ /\ (requireUserAuth /\ ValidAt(Extracted, now) /\ SystemShape(Extracted))
            => (Rejected401 /\ ctx' = ctx)
        /\ (requireSystemAuth /\ ValidAt(Extracted, now) /\ UserShape(Extracted))
            => (Rejected401 /\ ctx' = ctx) ]_vars

C1_Witness ==
    /\ last.op = "requireSystemAuth"
    /\ ValidAt(Extracted, last.clock) /\ UserShape(Extracted)
    /\ res.sent /\ res.status = 401 /\ nextCalls = 0 /\ ctx = NoContext

\* ------------------------------------------------------------------ C2
\* C2: no token is accepted by both requireUserAuth and requireSystemAuth:
\* for every request and time at most one of the two lets it continue.
C2_AtMostOneGuardAccepts ==
    ~(UserAuthOutcome(req, jwtSecretEnv, now).ok /\ SystemAuthOutcome(req, jwtSecretEnv, now).ok)

\* ------------------------------------------------------------------ C3
\* C3: after any sequence of guards on one request the auth context holds
\* at most one of authUser and authSystem.
C3_AtMostOneContext == ~(ctx.authUser # Null /\ ctx.authSystem # Null)

\* ------------------------------------------------------------------ C4
\* C4: requireAuth on a correctly signed, unexpired User or System token
\* calls next and tags the context: authUser (authSystem) is the decoded
\* payload, tokenType is 'user' ('system'), the other slot is untouched and
\* authToken is the extracted token string.
C4_RequireAuthTags ==
    [][ (requireAuth /\ ValidAt(Extracted, now))
        => /\ UserShape(Extracted) =>
                /\ Continued
                /\ ctx'.authUser = Payload(Extracted) /\ ctx'.tokenType = "user"
                /\ ctx'.authSystem = ctx.authSystem
                /\ ctx'.authToken = Extracted
           /\ SystemShape(Extracted) =>
                /\ Continued
                /\ ctx'.authSystem = Payload(Extracted) /\ ctx'.tokenType = "system"
                /\ ctx'.authUser = ctx.authUser
                /\ ctx'.authToken = Extracted ]_vars

C4_Witness ==
    /\ last.op = "requireAuth"
    /\ ValidAt(Extracted, last.clock) /\ SystemShape(Extracted)
    /\ ~res.sent /\ nextCalls = 1
    /\ ctx.authSystem = Payload(Extracted) /\ ctx.tokenType = "system"
    /\ ctx.authUser = Null /\ ctx.authToken = Extracted

\* ------------------------------------------------------------------ C5
\* C5: when no token can be extracted from the request, requireUserAuth,
\* requireSystemAuth and requireAuth each send a 401 and do not call next.
C5_MissingTokenRejected ==
    [][ ((requireUserAuth \/ requireSystemAuth \/ requireAuth) /\ Extracted = NoString)
        => Rejected401 ]_vars

C5_Witness ==
    /\ last.op = "requireAuth"
    /\ Extracted = NoString
    /\ req.authorization # NoString
    /\ res.sent /\ res.status = 401 /\ nextCalls = 0

\* ------------------------------------------------------------------ C6
\* C6: requireAuth rejects every expired token (no exp claim that lies in
\* the future: exp at or before the current time, no exp, or not
\* decodable) with 401 'Token has expired', whatever its payload shape,
\* and never as a wrong-kind or invalid-structure token.
ExpiredAt(token, clock) ==
    \/ ~HasObjectPayload(token)
    \/ ~Payload(token).hasExp
    \/ Payload(token).exp <= clock

C6_ExpiredRejectedAsExpired ==
    [][ (requireAuth /\ Truthy(Extracted) /\ ExpiredAt(Extracted, now))
        => (Rejected401 /\ res'.detail = "Token has expired") ]_vars

\* the part of C6 that the code keeps: an expired token is never rejected
\* as a wrong-kind or invalid-structure token
C6_ExpiredNeverWrongKind ==
    [][ (requireAuth /\ Truthy(Extracted) /\ ExpiredAt(Extracted, now))
        => (Rejected401 /\ res'.detail \in
                {"Token has expired", "Malformed token", "Token not active yet"}) ]_vars

\* ------------------------------------------------------------------ C7
\* C7: a correctly signed, unexpired token whose payload is neither a User
\* nor a System payload is rejected with 401 by requireAuth,
\* requireUserAuth and requireSystemAuth, and no auth context is attached.
C7_UnknownVariantRejected ==
    [][ ((requireAuth \/ requireUserAuth \/ requireSystemAuth)
            /\ ValidAt(Extracted, now) /\ NeitherShape(Extracted))
        => (Rejected401 /\ ctx' = ctx) ]_vars

C7_Witness ==
    /\ last.op = "requireAuth"
    /\ ValidAt(Extracted, last.clock) /\ NeitherShape(Extracted)
    /\ Extracted[1] = "T"
    /\ res.sent /\ res.status = 401 /\ nextCalls = 0 /\ ctx = NoContext

\* ------------------------------------------------------------------ C8
\* C8: a verified payload that satisfies both isUserToken and
\* isSystemToken is classified as User: requireAuth attaches it as
\* authUser with tokenType 'user' and does not set authSystem.
C8_UserWinsTieBreak ==
    [][ (requireAuth /\ ValidAt(Extracted, now) /\ BothShape(Extracted))
        => /\ Continued
           /\ ctx'.authUser = Payload(Extracted) /\ ctx'.tokenType = "user"
           /\ ctx'.authSystem = ctx.authSystem
           /\ ctx'.authToken = Extracted ]_vars

C8_Witness ==
    /\ last.op = "requireAuth"
    /\ ValidAt(Extracted, last.clock) /\ BothShape(Extracted)
    /\ ~res.sent /\ nextCalls = 1
    /\ ctx.authUser = Payload(Extracted) /\ ctx.tokenType = "user"
    /\ ctx.authSystem = Null

\* ------------------------------------------------------------------ C9
\* C9: optionalUserAuth always calls next and never sends a response; it
\* attaches User context (authUser, authToken, tokenType 'user') exactly
\* when the extracted token is correctly signed, unexpired and carries a
\* non-empty string userId, and otherwise leaves the context as it found
\* it; a valid System token is treated as absent.
AttachableUser(token, clock) ==
    ValidAt(token, clock) /\ HasStringUserId(token) /\ token[1] \notin {"E", "B"}

C9_OptionalNeverTerminates ==
    [][ optionalUserAuth
        => /\ Continued /\ res' = res
           /\ IF AttachableUser(Extracted, now)
              THEN ctx' = [ctx EXCEPT !.authUser = Payload(Extracted),
                                      !.authToken = Extracted,
                                      !.tokenType = "user"]
              ELSE ctx' = ctx ]_vars

C9_Witness ==
    /\ last.op = "optionalUserAuth"
    /\ ValidAt(Extracted, last.clock) /\ SystemShape(Extracted)
    /\ ~res.sent /\ nextCalls = 1 /\ ctx = NoContext

\* ----------------------------------------------------------------- C10
\* C10: checkTokenExpiry(thresholdMinutes) sets X-Token-Expiry-Warning,
\* X-Token-Expires-In and X-Token-Type together exactly when an auth
\* context is present and the exp claim of its token minus the current
\* time is at most thresholdMinutes * 60 seconds; otherwise it sets none.
\* With threshold 15, 600 seconds to expiry gives all three headers with
\* Expires-In 600 and 1800 seconds gives none.
WarningHeaders == {"X-Token-Expiry-Warning", "X-Token-Expires-In", "X-Token-Type"}

ContextPresent == (ctx.authUser # Null \/ ctx.authSystem # Null) /\ ctx.authToken # NoString

SecondsLeft == Payload(ctx.authToken).exp - now

C10_ExpiryHeaders ==
    [][ \A thresholdMinutes \in Thresholds :
          checkTokenExpiry(thresholdMinutes)
          => IF /\ ContextPresent
                /\ Payload(ctx.authToken).hasExp
                /\ SecondsLeft <= thresholdMinutes * 60
             THEN /\ WarningHeaders \subseteq resHeaders'.names
                  /\ resHeaders'.expiresIn = SecondsLeft
                  /\ resHeaders'.tokenType = ctx.tokenType
             ELSE resHeaders' = resHeaders ]_vars

C10_Witness ==
    /\ last.op = "checkTokenExpiry" /\ last.arg = 15
    /\ ContextPresent
    /\ Payload(ctx.authToken).exp - last.clock = 600
    /\ resHeaders.names = WarningHeaders
    /\ resHeaders.expiresIn = 600
    /\ resHeaders.tokenType = "user"

C10_WitnessNoHeaders ==
    /\ last.op = "checkTokenExpiry" /\ last.arg = 15
    /\ ContextPresent
    /\ Payload(ctx.authToken).exp - last.clock = 1800
    /\ resHeaders.names = {}

\* ----------------------------------------------------------------- C11
\* C11: checkTokenExpiry is read-only and never terminates the request:
\* with or without an auth context it calls next exactly once, sets no
\* status, sends no response and leaves authUser, authSystem, authToken
\* and tokenType unchanged.
C11_ExpiryCheckReadOnly ==
    [][ \A thresholdMinutes \in Thresholds :
          checkTokenExpiry(thresholdMinutes)
          => /\ nextCalls' = nextCalls + 1
             /\ res' = res /\ ~res'.sent
             /\ ctx' = ctx ]_vars

C11_Witness ==
    /\ last.op = "checkTokenExpiry"
    /\ ContextPresent
    /\ resHeaders.names = WarningHeaders
    /\ nextCalls = 2 /\ steps = 2
    /\ ~res.sent /\ res.status = 200

C11_WitnessNoContext ==
    /\ last.op = "checkTokenExpiry"
    /\ ctx = NoContext
    /\ Truthy(Extracted)
    /\ nextCalls = 1 /\ steps = 1
    /\ ~res.sent /\ resHeaders = NoHeaders

\* ----------------------------------------------------------------- C12
\* C12: extraction returns the first non-empty candidate in the order
\* header, query parameter, cookie, and null if there is none: the header's
\* bearer token wins over query and cookie, the query token is returned
\* only when the header yields none, the cookie token only when neither
\* header nor query yields one.  Every guard that attaches a token
\* attaches that one.
NonSpaceAt(s) == {i \in 1..Len(s) : s[i] # " "}
First(S) == CHOOSE i \in S : \A j \in S : i <= j
Final(S) == CHOOSE i \in S : \A j \in S : i >= j

\* the bearer token of a header value, described position by position
ExpectedHeaderToken(h) ==
    IF h = NoString \/ Len(h) < 7 \/ \E i \in 1..7 : h[i] # BearerPrefix[i] THEN NoString
    ELSE LET rest == [i \in 1..(Len(h) - 7) |-> h[i + 7]]
             ns   == NonSpaceAt(rest)
         IN  IF ns = {} THEN NoString
             ELSE [i \in 1..(Final(ns) - First(ns) + 1) |-> rest[First(ns) + i - 1]]

IsToken(s) == s \notin {NoString, NonString, <<>>}

ExpectedToken(r) ==
    IF ExpectedHeaderToken(r.authorization) # NoString
    THEN ExpectedHeaderToken(r.authorization)
    ELSE IF IsToken(r.queryToken) THEN r.queryToken
    ELSE IF IsToken(r.cookieToken) THEN r.cookieToken
    ELSE NoString

C12_ExtractionPrecedence ==
    /\ Extracted = ExpectedToken(req)
    /\ ctx.authToken # NoString => ctx.authToken = ExpectedToken(req)

C12_Witness ==
    /\ last.op = "requireAuth"
    /\ ExpectedHeaderToken(req.authorization) # NoString
    /\ IsToken(req.queryToken) /\ IsToken(req.cookieToken)
    /\ Cardinality({ExpectedHeaderToken(req.authorization), req.queryToken, req.cookieToken}) = 3
    /\ ctx.authToken = ExpectedHeaderToken(req.authorization)

C12_WitnessQuery ==
    /\ last.op = "requireAuth"
    /\ req.authorization # NoString /\ ExpectedHeaderToken(req.authorization) = NoString
    /\ IsToken(req.queryToken) /\ IsToken(req.cookieToken)
    /\ req.queryToken # req.cookieToken
    /\ ctx.authToken = req.queryToken

C12_WitnessCookie ==
    /\ last.op = "requireUserAuth"
    /\ ExpectedHeaderToken(req.authorization) = NoString
    /\ ~IsToken(req.queryToken) /\ IsToken(req.cookieToken)
    /\ ctx.authToken = req.cookieToken

\* ----------------------------------------------------------------- C13
\* C13: extractToken returns the trimmed remainder when the header value
\* starts with the exact, case-sensitive prefix 'Bearer ' and the remainder
\* is not empty after trimming, and null otherwise ('Token abc',
\* 'bearer abc', '', 'Bearer   ').
C13_ExtractToken ==
    /\ extractToken(req.authorization) = ExpectedHeaderToken(req.authorization)
    /\ extractToken(BearerPrefix \o <<"a", "b", "c">>) = <<"a", "b", "c">>
    /\ extractToken(BearerPrefix \o <<" ", " ">>) = NoString
    /\ extractToken(<<"T", "o", "k", "e", "n", " ", "a", "b", "c">>) = NoString
    /\ extractToken(<<"b", "e", "a", "r", "e", "r", " ", "a", "b", "c">>) = NoString
    /\ extractToken(<<>>) = NoString

C13_Witness ==
    /\ last.op = "requireUserAuth"
    /\ req.authorization = BearerPrefix \o <<" ">> \o <<"U", "w", "-", "k">> \o <<" ">>
    /\ ctx.authToken = <<"U", "w", "-", "k">>
    /\ ~res.sent

\* ----------------------------------------------------------------- C14
\* C14: isTokenExpired is fail-closed: it returns true if the token cannot
\* be decoded, if it carries no expiry claim, or if the expiry claim is at
\* or before the current time in whole seconds; it returns false only
\* when an expiry strictly in the future exists.
C14_FailClosed ==
    Truthy(Extracted) => (isTokenExpired(Extracted, now) <=> ExpiredAt(Extracted, now))

\* the part of C14 that the code keeps: undecodable tokens, tokens without
\* an expiry claim and tokens whose expiry lies before now are expired
C14_PastIsExpired ==
    Truthy(Extracted) =>
        /\ ~HasObjectPayload(Extracted) => isTokenExpired(Extracted, now)
        /\ HasObjectPayload(Extracted) /\ ~Payload(Extracted).hasExp
              => isTokenExpired(Extracted, now)
        /\ HasObjectPayload(Extracted) /\ Payload(Extracted).hasExp
              => (isTokenExpired(Extracted, now)
                    <=> (Payload(Extracted).exp = 0 \/ Payload(Extracted).exp < now))

\* ----------------------------------------------------------------- C15
\* C15: every failure of validateToken is an HttpError with status 401,
\* with reason 'Malformed token' when the signature or structure is
\* invalid, 'Token not active yet' when a not-before claim is in the
\* future, 'Token has expired' when the expiry claim has passed, and the
\* generic 'Invalid token' for any other verification failure.  Where two
\* conditions hold together the library's order decides: signature, then
\* not-before, then expiry.
IsBlank(token) == \A i \in 1..Len(token) : token[i] = " "

ExpectedReason(token, clock) ==
    IF IsBlank(token) THEN "Token is required"
    ELSE IF ~CorrectlySigned(token) THEN "Malformed token"
    ELSE IF HasObjectPayload(token) /\ Payload(token).hasNbf /\ Payload(token).nbf > clock
         THEN "Token not active yet"
    ELSE IF HasObjectPayload(token) /\ Payload(token).hasExp /\ Payload(token).exp <= clock
         THEN "Token has expired"
    ELSE "Invalid token"

C15_VerificationFailures ==
    Truthy(Extracted) =>
        \E r \in {validateToken(Extracted, jwtSecretEnv, now)} :
            \/ r.ok /\ CorrectlySigned(Extracted) /\ HasObjectPayload(Extracted)
                    /\ ~NeitherShape(Extracted)
            \/ /\ ~r.ok
               /\ r.status = 401
               /\ r.detail = ExpectedReason(Extracted, now)

C15_Witness ==
    /\ last.op = "requireUserAuth"
    /\ res.sent /\ res.status = 401 /\ res.detail = "Token not active yet"
    /\ CorrectlySigned(Extracted)

C15_WitnessExpired ==
    /\ last.op = "requireSystemAuth"
    /\ res.sent /\ res.status = 401 /\ res.detail = "Token has expired"

C15_WitnessMalformed ==
    /\ last.op = "requireUserAuth"
    /\ res.sent /\ res.status = 401 /\ res.detail = "Malformed token"

C15_WitnessGeneric ==
    /\ last.op = "requireUserAuth"
    /\ res.sent /\ res.status = 401 /\ res.detail = "Invalid token"
    /\ CorrectlySigned(Extracted)

\* ----------------------------------------------------------------- C17
\* C17: when JWT_SECRET is absent from the environment, validateToken
\* fails with a configuration error; no token is accepted against a
\* default secret.
C17_NoDefaultSecret ==
    jwtSecretEnv = "" =>
        /\ ctx = NoContext
        /\ Truthy(Extracted) =>
              validateToken(Extracted, jwtSecretEnv, now)
                  = InternalServerError("JWT secret not configured")

C16_RoundTrip ==
    (codec.checked.done /\ codec.checked.at < Payload(codec.issued).exp) =>
        /\ UserShape(codec.issued)
              => codec.checked.ok /\ codec.checked.isUser /\ ~codec.checked.isSystem
        /\ SystemShape(codec.issued)
              => codec.checked.ok /\ codec.checked.isSystem /\ ~codec.checked.isUser

\* a signed token carries the payload it was given, the key of the
\* environment and an expiry after its issue time
C16_IssuedTokens ==
    codec.issued # NoString =>
        /\ CorrectlySigned(codec.issued)
        /\ codec.issued[1] \in SignedPayloads
        /\ Payload(codec.issued).hasExp /\ Payload(codec.issued).exp > codec.iat
        /\ ~Payload(codec.issued).hasNbf

C16_Witness ==
    /\ codec.checked.done /\ codec.checked.ok /\ codec.checked.isUser
    /\ UserShape(codec.issued)
    /\ codec.expiresInEnv = "2s" /\ codec.iat = 0 /\ codec.checked.at = 1

C16_WitnessSystem ==
    /\ codec.checked.done /\ codec.checked.ok
    /\ codec.checked.isSystem /\ ~codec.checked.isUser
    /\ SystemShape(codec.issued) /\ codec.iat < codec.checked.at

C16_WitnessExpired ==
    /\ codec.checked.done /\ ~codec.checked.ok
    /\ codec.checked.detail = "Token has expired"
    /\ UserShape(codec.issued) /\ codec.checked.at = Payload(codec.issued).exp

\* ----------------------------------------------------------------- C19
\* C19: the accessors are pure reads of the auth context: a call never
\* modifies the request or the response; called without any guard having
\* run they return the absent value (null, or false for the has*
\* accessors); called again after requireUserAuth succeeded, getUser
\* returns the same decoded user as before.
AccessorCall ==
    GetUser \/ GetSystem \/ GetToken \/ GetTokenType \/ HasUserToken \/ HasSystemToken

AbsentRead ==
    /\ read.object = Null /\ read.text = NoString /\ read.tag = "null" /\ ~read.flag

C19_AccessorsPure ==
    [][ /\ AccessorCall
           => /\ ctx' = ctx /\ req' = req /\ res' = res /\ resHeaders' = resHeaders
              /\ nextCalls' = nextCalls
              /\ steps = 0 => AbsentRead'
        /\ (GetUser /\ read.fn = "getUser" /\ read.object # Null)
           => read'.object = read.object
        /\ (GetUser /\ read.fn = "getUser" /\ read.at = steps)
           => read'.object = read.object
        /\ (GetUser /\ last.op = "requireUserAuth" /\ ~res.sent)
           => read'.object = Payload(Extracted) /\ read'.object.kind = "object"
      ]_vars

C19_Witness ==
    /\ read.fn = "getUser" /\ read.object = Payload(Extracted)
    /\ read.object.kind = "object" /\ read.object.userId = "u1"
    /\ last.op = "requireUserAuth" /\ read.at = steps /\ ~res.sent
    /\ read.repeat

C19_WitnessNoGuard ==
    /\ read.fn = "hasUserToken" /\ steps = 0 /\ AbsentRead /\ Truthy(Extracted)

C19_WitnessSystem ==
    /\ read.fn = "getSystem" /\ read.object.kind = "object" /\ ctx.tokenType = "system"

\* ----------------------------------------------------------------- C20
\* C20: on every alerts endpoint, schema validation and the route handler
\* run only after a required-auth guard has succeeded for the request: no
\* alerts request reaches validation or persistence unauthenticated.
C20_AuthBeforeValidation ==
    route.stage \in {"handler", "invalid", "responded", "error"}
        => ContextPresent /\ nextCalls >= 1

\* ----------------------------------------------------------------- C21
\* C21: requireAuth and requireUserAuth accept the same set of User
\* tokens: for every token and time, requireUserAuth lets the request
\* continue if and only if requireAuth lets it continue with tokenType
\* 'user', in particular for tokens whose userId is the empty string and
\* for correctly signed tokens that carry no exp claim.
C21_SameUserTokens ==
    Truthy(Extracted) =>
        \E u \in {UserAuthOutcome(req, jwtSecretEnv, now)} :
        \E a \in {AuthOutcome(req, jwtSecretEnv, now)} :
            u.ok <=> (a.ok /\ a.value.type = "user")

\* the part of C21 that the code keeps: on tokens with an exp claim and a
\* non-empty userId the two guards agree
C21_SameUserTokensWithExpAndId ==
    (/\ Truthy(Extracted)
     /\ HasObjectPayload(Extracted) => (/\ Payload(Extracted).hasExp
                                        /\ Payload(Extracted).exp # 0
                                        /\ Extracted[1] \notin {"E", "B"})) =>
        \E u \in {UserAuthOutcome(req, jwtSecretEnv, now)} :
        \E a \in {AuthOutcome(req, jwtSecretEnv, now)} :
            u.ok <=> (a.ok /\ a.value.type = "user")

\* ----------------------------------------------------------------- C22
\* C22: after any sequence of guards on one request the tag agrees with
\* the context: tokenType is 'user' if and only if authUser is set and
\* 'system' if and only if authSystem is set; hence hasUserToken is true
\* exactly when getUser is non-null, hasSystemToken exactly when getSystem
\* is non-null, and checkTokenExpiry never emits X-Token-Type 'unknown'.
C22_TagAgreesWithContext ==
    /\ ctx.tokenType = "user" <=> ctx.authUser # Null
    /\ ctx.tokenType = "system" <=> ctx.authSystem # Null
    /\ hasUserToken(ctx) <=> getUser(ctx) # Null
    /\ hasSystemToken(ctx) <=> getSystem(ctx) # Null
    /\ resHeaders.tokenType # "unknown"

\* the parts of C22 that the code keeps: the tag names a context that is
\* set, a context is never present without a tag, X-Token-Type is never
\* 'unknown', and on tokens that are not of both shapes the tag and the
\* context agree
C22_TagNamesPresentContext ==
    /\ ctx.tokenType = "user" => ctx.authUser # Null
    /\ ctx.tokenType = "system" => ctx.authSystem # Null
    /\ ContextPresent => ctx.tokenType \in {"user", "system"}
    /\ resHeaders.tokenType # "unknown"
    /\ (Truthy(Extracted) /\ WellFormed(Extracted) /\ ~BothShape(Extracted))
          => /\ ctx.tokenType = "user" <=> ctx.authUser # Null
             /\ ctx.tokenType = "system" <=> ctx.authSystem # Null

C23_RejectionBeforeNextKeepsContext ==
    [][ ((DirectUserAuth \/ DirectSystemAuth \/ DirectAuth)
            /\ res'.sent /\ nextCalls' = nextCalls)
        => ctx' = ctx ]_vars

C24_AtLeastOneOutcome ==
    [][ (DirectUserAuth \/ DirectSystemAuth \/ DirectAuth)
        => /\ nextCalls' = nextCalls + 1 \/ res'.sent
           /\ nextCalls' \in {nextCalls, nextCalls + 1}
           /\ (requireUserAuth \/ requireSystemAuth \/ requireAuth)
                => (Continued \/ Rejected401) ]_vars

\* ----------------------------------------------------------------- C25
\* C25: a guard verifies only the token chosen by extraction and never
\* falls back to a lower-priority carrier: if the Authorization header
\* carries a non-empty Bearer token that fails verification, the required
\* guards reject with 401 and optionalUserAuth attaches nothing, even when
\* the query parameter or the cookie carries a valid token of the right
\* kind.
HeaderTokenFails ==
    /\ ExpectedHeaderToken(req.authorization) # NoString
    /\ ~validateToken(ExpectedHeaderToken(req.authorization), jwtSecretEnv, now).ok

C25_NoFallback ==
    [][ HeaderTokenFails
        => /\ (requireUserAuth \/ requireSystemAuth \/ requireAuth) => Rejected401 /\ ctx' = ctx
           /\ optionalUserAuth => Continued /\ ctx' = ctx ]_vars

C25_Witness ==
    /\ last.op = "requireUserAuth" /\ steps = 1 /\ now = last.clock
    /\ HeaderTokenFails
    /\ IsToken(req.queryToken) /\ UserShape(req.queryToken) /\ ValidAt(req.queryToken, now)
    /\ res.sent /\ res.status = 401 /\ ctx = NoContext

C25_WitnessSystemCookie ==
    /\ last.op = "requireSystemAuth" /\ steps = 1 /\ now = last.clock
    /\ HeaderTokenFails
    /\ IsToken(req.cookieToken) /\ SystemShape(req.cookieToken)
    /\ ValidAt(req.cookieToken, now)
    /\ res.sent /\ res.status = 401 /\ ctx = NoContext

C25_WitnessOptional ==
    /\ last.op = "optionalUserAuth" /\ steps = 1 /\ now = last.clock
    /\ HeaderTokenFails
    /\ IsToken(req.queryToken) /\ UserShape(req.queryToken) /\ ValidAt(req.queryToken, now)
    /\ ~res.sent /\ nextCalls = 1 /\ ctx = NoContext

\* ----------------------------------------------------------------- C26
\* C26: every request that reaches an alerts route handler eventually gets
\* exactly one outcome, a response sent or next(error) called, including
\* when the persistence layer raises a ValidationError or a CastError and
\* when bulk-update receives a body without filter or update; no such
\* request is left without a response.
C26_HandlerAnswers ==
    (route.stage = "handler") ~> (route.stage \in {"responded", "error"})

\* the part of C26 that the code keeps: a handler never both responds and
\* calls next, and it answers or calls next(error) in every case except a
\* ValidationError or CastError that its catch block turns into a throw
C26_AnswersUnlessRethrown ==
    [][ Handler
        => /\ route'.stage \in {"responded", "error", "rejected"}
           /\ route'.stage = "responded" <=> (res'.sent /\ ~res.sent)
           /\ route'.stage = "rejected" => Rethrown(route.endpoint) # {}
           /\ route.endpoint = "list" => route'.stage # "rejected" ]_vars

====
